---------------------------- MODULE Spec2Model ----------------------------
(***************************************************************************)
(* Model of pyrlang/gen.py: recognition of gen:call style envelopes        *)
(* (parse_gen_call, parse_gen_message) and the reply path of a recognised  *)
(* request (GenBase.reply, GenBase.reply_exit).                            *)
(*                                                                         *)
(* Python values are tagged records, so that an Atom, a bytes object and a *)
(* str holding the same characters are three different values:             *)
(*   [type |-> "int",   n]            [type |-> "atom",  text_]            *)
(*   [type |-> "bytes", data]         [type |-> "str",   s]                *)
(*   [type |-> "pid",   node_name_, id]   [type |-> "ref", id]             *)
(*   [type |-> "tuple", items]        [type |-> "list",  items]            *)
(* What a call produces is a record whose kind is the class of the object  *)
(* returned ("GenIncomingCall", "GenIncomingMessage"), "str" for the error *)
(* strings the parsers return, or "raise" for an exception that leaves the *)
(* function.                                                               *)
(***************************************************************************)
EXTENDS Naturals, Sequences, FiniteSets, TLC

(***************************************************************************)
(* Bounds of the model.                                                    *)
(***************************************************************************)
\* reply / reply_exit invocations explored on the requests of one message
MaxInvocations == 2

(***************************************************************************)
(* Python values.                                                          *)
(***************************************************************************)
Int(n) == [type |-> "int", n |-> n]
Atom(t) == [type |-> "atom", text_ |-> t]
Bytes(d) == [type |-> "bytes", data |-> d]
Str(s) == [type |-> "str", s |-> s]
Pid(node, id) == [type |-> "pid", node_name_ |-> node, id |-> id]
Reference(id) == [type |-> "ref", id |-> id]
Tuple(items) == [type |-> "tuple", items |-> items]
List(items) == [type |-> "list", items |-> items]

\* isinstance(v, Atom)
IsAtom(v) == v.type = "atom"
\* isinstance(v, Pid): the objects that carry node_name_
IsPid(v) == v.type = "pid"

\* The str the parsers return on a message they do not accept.
ErrStr(text) == [kind |-> "str", s |-> text]
\* An exception leaving the function.
Raise(exc) == [kind |-> "raise", exc |-> exc]
\* The function has not been called yet.
NotRun == [kind |-> "notrun"]

Alphabet == "abcdefghijklmnopqrstuvwxyz"
\* ord() of a lower-case letter (the bytes of the model hold nothing else)
Ord(c) == 96 + (CHOOSE i \in 1..Len(Alphabet) : SubSeq(Alphabet, i, i) = c)

\* Python's iteration protocol: what tuple unpacking and len() see.
IsIterable(v) == v.type \in {"tuple", "list", "str", "bytes"}
PyItems(v) ==
    CASE v.type \in {"tuple", "list"} -> v.items
      [] v.type = "str" -> [i \in 1..Len(v.s) |-> Str(SubSeq(v.s, i, i))]
      [] v.type = "bytes" -> [i \in 1..Len(v.data) |-> Int(Ord(SubSeq(v.data, i, i)))]
PyLen(v) == Len(PyItems(v))

\* pyrlang.util.as_str: the canonical str of an atom, a bytes or a str;
\* "fail" stands for its failure on any other type.
CanAsStr(v) == v.type \in {"atom", "bytes", "str"}
as_str(v) ==
    CASE v.type = "atom" -> v.text_
      [] v.type = "bytes" -> v.data
      [] v.type = "str" -> v.s
      [] OTHER -> "fail"

(***************************************************************************)
(* The classes.                                                            *)
(***************************************************************************)
GenIncomingMessage(sender, ref, message, node_name) ==
    [kind |-> "GenIncomingMessage",
     node_name_ |-> node_name, sender_ |-> sender, ref_ |-> ref,
     message_ |-> message]

\* GenIncomingCall storing the module under fun_ and the function under mod_
GenIncomingCall_swapped(mod, fun, args, group_leader, sender, ref, node_name) ==
    [kind |-> "GenIncomingCall",
     node_name_ |-> node_name, sender_ |-> sender, ref_ |-> ref,
     mod_ |-> fun, fun_ |-> mod, args_ |-> args,
     group_leader_ |-> group_leader]

GenIncomingCall(mod, fun, args, group_leader, sender, ref, node_name) ==
    [kind |-> "GenIncomingCall",
     node_name_ |-> node_name, sender_ |-> sender, ref_ |-> ref,
     mod_ |-> mod, fun_ |-> fun, args_ |-> args,
     group_leader_ |-> group_leader]

(***************************************************************************)
(* The parsers.                                                            *)
(***************************************************************************)
OnlyTuple == "Only {tuple} messages allowed"
OnlyGenCall == "Only {$gen_call, _, _} messages allowed"
\* the arity error carrying the text of the tag error
Expecting5_copied == "Only {$gen_call, _, _} messages allowed"
Expecting5 == "Expecting a 5-tuple (with a 'call' atom)"

\* (a, b) = v  and  (a, b, c) = v: the exception of unpacking v into n names,
\* "none" when it unpacks.
UnpackExc(v, n) ==
    IF ~IsIterable(v) THEN "TypeError"
    ELSE IF PyLen(v) # n THEN "ValueError"
    ELSE "none"

\* line 127: not isinstance(msg[0], Atom) or msg[0].text_ != '$gen_call'
CallTagMismatch(first) == ~IsAtom(first) \/ first.text_ # "$gen_call"

\* atom != 'text' (term.atom.Atom, a class of the term package): an Atom is
\* compared with a str by the characters it holds.
AtomNeStr(atom, text) == atom.text_ # text

\* the tag check of line 158 with an Atom that never equals a str
MessageTagMismatch_strict(first) == ~IsAtom(first) \/ first # Str("$gen_call")

\* line 158: not isinstance(msg[0], Atom) or msg[0] != '$gen_call'
MessageTagMismatch(first) == ~IsAtom(first) \/ AtomNeStr(first, "$gen_call")

parse_gen_call(msg, node_name) ==
    IF msg.type # "tuple" THEN ErrStr(OnlyTuple)
    ELSE IF Len(msg.items) = 0 THEN Raise("IndexError")
    ELSE IF CallTagMismatch(msg.items[1]) THEN ErrStr(OnlyGenCall)
    ELSE IF Len(msg.items) # 3 THEN Raise("ValueError")
    ELSE LET sender_mref == msg.items[2]
             call_mfa_gl == msg.items[3]
         IN  IF UnpackExc(sender_mref, 2) # "none"
             THEN Raise(UnpackExc(sender_mref, 2))
             ELSE IF ~IsIterable(call_mfa_gl) THEN Raise("TypeError")
             ELSE IF PyLen(call_mfa_gl) # 5 THEN ErrStr(Expecting5)
             ELSE LET msender == PyItems(sender_mref)[1]
                      mref == PyItems(sender_mref)[2]
                      m == PyItems(call_mfa_gl)[2]
                      f == PyItems(call_mfa_gl)[3]
                      args == PyItems(call_mfa_gl)[4]
                      group_leader == PyItems(call_mfa_gl)[5]
                  IN  IF ~CanAsStr(m) \/ ~CanAsStr(f)
                      THEN Raise("as_str")
                      ELSE GenIncomingCall(as_str(m), as_str(f), args,
                                           group_leader, msender, mref,
                                           node_name)

parse_gen_message(msg, node_name) ==
    IF msg.type # "tuple" THEN ErrStr(OnlyTuple)
    ELSE IF Len(msg.items) = 0 THEN Raise("IndexError")
    ELSE IF MessageTagMismatch(msg.items[1]) THEN ErrStr(OnlyGenCall)
    ELSE IF Len(msg.items) # 3 THEN Raise("ValueError")
    ELSE LET sender_mref == msg.items[2]
             gcmsg == msg.items[3]
         IN  IF UnpackExc(sender_mref, 2) # "none"
             THEN Raise(UnpackExc(sender_mref, 2))
             ELSE GenIncomingMessage(PyItems(sender_mref)[1],
                                     PyItems(sender_mref)[2],
                                     gcmsg, node_name)

(***************************************************************************)
(* The reply path.  An ordinary message is what Node.send enqueues, a      *)
(* distribution command what Node._dist_command enqueues; via is the name  *)
(* under which the node that enqueues it is registered in Node.all_nodes.  *)
(***************************************************************************)
\* n.send(sender=, receiver=, message=) on the node registered as via
NodeSend(via, sender, receiver, message) ==
    [via |-> via, sender |-> sender, receiver |-> receiver,
     message |-> message]

\* n._dist_command(receiver_node=, message=) on the node registered as via
NodeDistCommand(via, receiver_node, message) ==
    [via |-> via, receiver_node |-> receiver_node, message |-> message]

\* What one invocation does: the exception it ends with ("none" when it
\* returns), what it appends to the two queues, and the request object and
\* the registry as it leaves them.
Effect(exc, msgs, cmds, self, nodes) ==
    [exc |-> exc, msgs |-> msgs, cmds |-> cmds, self |-> self,
     nodes |-> nodes]

\* reply with the two items of the message in the other order
reply_swapped(self, local_pid, result, nodes) ==
    IF self.node_name_ \notin nodes
    THEN Effect("KeyError", <<>>, <<>>, self, nodes)
    ELSE Effect("none",
                <<NodeSend(self.node_name_, local_pid, self.sender_,
                           Tuple(<<result, self.ref_>>))>>,
                <<>>, self, nodes)

\* reply looking the node up with a default and returning when there is none
reply_silent(self, local_pid, result, nodes) ==
    IF self.node_name_ \notin nodes
    THEN Effect("none", <<>>, <<>>, self, nodes)
    ELSE Effect("none",
                <<NodeSend(self.node_name_, local_pid, self.sender_,
                           Tuple(<<self.ref_, result>>))>>,
                <<>>, self, nodes)

\* GenBase.reply(self, local_pid, result), Node.all_nodes being nodes
reply(self, local_pid, result, nodes) ==
    IF self.node_name_ \notin nodes
    THEN Effect("KeyError", <<>>, <<>>, self, nodes)
    ELSE Effect("none",
                <<NodeSend(self.node_name_, local_pid, self.sender_,
                           Tuple(<<self.ref_, result>>))>>,
                <<>>, self, nodes)

\* reply_exit addressing the command to the node the request was received on
reply_exit_own_node(self, local_pid, reason, nodes) ==
    LET r == Tuple(<<Str("monitor_p_exit"), local_pid, self.sender_,
                     self.ref_, reason>>)
    IN  IF self.node_name_ \notin nodes
        THEN Effect("KeyError", <<>>, <<>>, self, nodes)
        ELSE IF ~IsPid(self.sender_)
        THEN Effect("AttributeError", <<>>, <<>>, self, nodes)
        ELSE Effect("none", <<>>,
                    <<NodeDistCommand(self.node_name_, self.node_name_, r)>>,
                    self, nodes)

\* reply_exit with a single-use guard: it clears the token once it has sent
reply_exit_once(self, local_pid, reason, nodes) ==
    LET r == Tuple(<<Str("monitor_p_exit"), local_pid, self.sender_,
                     self.ref_, reason>>)
    IN  IF self.node_name_ \notin nodes
        THEN Effect("KeyError", <<>>, <<>>, self, nodes)
        ELSE IF ~IsPid(self.sender_)
        THEN Effect("AttributeError", <<>>, <<>>, self, nodes)
        ELSE IF self.ref_ = Atom("None")
        THEN Effect("none", <<>>, <<>>, self, nodes)
        ELSE Effect("none", <<>>,
                    <<NodeDistCommand(self.node_name_,
                                      self.sender_.node_name_, r)>>,
                    [self EXCEPT !.ref_ = Atom("None")], nodes)

\* GenBase.reply_exit(self, local_pid, reason), Node.all_nodes being nodes
reply_exit(self, local_pid, reason, nodes) ==
    LET r == Tuple(<<Str("monitor_p_exit"), local_pid, self.sender_,
                     self.ref_, reason>>)
    IN  IF self.node_name_ \notin nodes
        THEN Effect("KeyError", <<>>, <<>>, self, nodes)
        ELSE IF ~IsPid(self.sender_)
        THEN Effect("AttributeError", <<>>, <<>>, self, nodes)
        ELSE Effect("none", <<>>,
                    <<NodeDistCommand(self.node_name_,
                                      self.sender_.node_name_, r)>>,
                    self, nodes)

(***************************************************************************)
(* The messages, node names and reply values the model draws from.         *)
(***************************************************************************)
NodeNames == {"n1", "n2"}
pidA == Pid("erl1", 1)
pidB == Pid("erl2", 2)
ref1 == Reference(1)
ref2 == Reference(2)
\* the local processes that answer
LocalPids == {Pid("n1", 7), Pid("n2", 8)}
\* results of reply, reasons of reply_exit
ReplyValues == {Atom("ok"), Int(7)}

GenCallTag == Atom("$gen_call")
\* first elements of a tuple
Firsts == {GenCallTag, Atom("$other_tag"), Str("$gen_call"),
           Bytes("gencall"), Int(1)}
PairA == Tuple(<<pidA, ref1>>)
PairB == Tuple(<<pidB, ref2>>)
\* second elements that unpack into two names ...
Pairs == {PairA, PairB, List(<<pidA, ref1>>), Str("ab")}
\* ... and second elements that do not
NotPairs == {Tuple(<<>>), Tuple(<<pidA>>), Tuple(<<pidA, ref1, ref2>>),
             Int(5), pidA, List(<<pidA>>)}
ModTerms == {Atom("mod"), Bytes("mod"), Str("mod"), Int(42)}
FunTerms == {Atom("func"), Bytes("func"), Str("func"), List(<<Int(1)>>)}
Args123 == List(<<Int(1), Int(2), Int(3)>>)
DefaultBody == Tuple(<<Atom("call"), Str("mod"), Str("func"), Args123, pidA>>)
\* third elements of five items
Bodies5 ==
    {Tuple(<<Atom("call"), m, f, Args123, pidA>>) : m \in ModTerms, f \in FunTerms}
    \cup {Tuple(<<c, Atom("mod"), Bytes("func"), a, pidB>>) :
              c \in {Int(0), Str("call"), Tuple(<<>>)},
              a \in {List(<<>>), List(<<Int(3), Int(1), Int(3)>>)}}
    \cup {List(<<Atom("call"), Str("mod"), Str("func"), Args123, pidA>>)}
\* third elements that len() measures and that do not hold five items
BodiesNot5 ==
    {Tuple(<<>>),
     Tuple(<<Atom("is_auth"), Atom("erl1")>>),
     Tuple(<<Atom("call"), Str("mod"), Str("func"), Args123>>),
     Tuple(<<Atom("call"), Str("mod"), Str("func"), Args123, pidA, Int(0)>>)}
\* third elements len() does not accept
BodiesUnsized == {Int(7), pidA}

RawMessages ==
    {Int(42), GenCallTag, Str("$gen_call"), List(<<GenCallTag, PairA, DefaultBody>>)}
    \cup {Tuple(<<>>)}
    \cup {Tuple(<<t>>) : t \in Firsts}
    \cup {Tuple(<<t, PairA>>) : t \in Firsts}
    \cup {Tuple(<<t, PairA, DefaultBody, Int(0)>>) : t \in Firsts}
    \cup {Tuple(<<t, PairA, b>>) : t \in Firsts, b \in {DefaultBody, Int(7)}}
    \cup {Tuple(<<GenCallTag, PairA, b>>) :
              b \in Bodies5 \cup BodiesNot5 \cup BodiesUnsized}
    \cup {Tuple(<<GenCallTag, p, b>>) :
              p \in Pairs \cup NotPairs,
              b \in {DefaultBody, Tuple(<<Atom("is_auth"), Atom("erl1")>>)}}

(***************************************************************************)
(* The state.                                                              *)
(***************************************************************************)
VARIABLES
    msg,          \* the raw message a process received
    node_name,    \* the name of the node it was received on
    all_nodes,    \* Node.all_nodes: the names the registry holds
    monitored,    \* whether the caller holds a monitor on the local process
    call,         \* what parse_gen_call(msg, node_name) produced
    gmsg,         \* what parse_gen_message(msg, node_name) produced
    sent,         \* ordinary messages enqueued by Node.send, in order
    dist,         \* distribution commands enqueued by Node._dist_command
    last,         \* the last reply / reply_exit invocation and how it ended
    invocations   \* number of reply / reply_exit invocations so far

vars == <<msg, node_name, all_nodes, monitored, call, gmsg, sent, dist, last,
          invocations>>

NoInvocation == [op |-> "none"]

Init ==
    /\ msg \in RawMessages
    /\ node_name \in NodeNames
    /\ all_nodes \in SUBSET NodeNames
    /\ monitored \in BOOLEAN
    /\ call = NotRun
    /\ gmsg = NotRun
    /\ sent = <<>>
    /\ dist = <<>>
    /\ last = NoInvocation
    /\ invocations = 0

\* The process hands the message to parse_gen_call.
ParseGenCall ==
    /\ call = NotRun
    /\ call' = parse_gen_call(msg, node_name)
    /\ UNCHANGED <<msg, node_name, all_nodes, monitored, gmsg, sent, dist,
                   last, invocations>>

\* The process hands the message to parse_gen_message.
ParseGenMessage ==
    /\ gmsg = NotRun
    /\ gmsg' = parse_gen_message(msg, node_name)
    /\ UNCHANGED <<msg, node_name, all_nodes, monitored, call, sent, dist,
                   last, invocations>>

IsRequest(r) == r.kind \in {"GenIncomingCall", "GenIncomingMessage"}

\* One invocation of a reply method on the request held in call ("call") or
\* in gmsg ("gmsg"), e being what the method does.
Invoke(op, which, local_pid, value, e) ==
    /\ invocations < MaxInvocations
    /\ sent' = sent \o e.msgs
    /\ dist' = dist \o e.cmds
    /\ all_nodes' = e.nodes
    /\ call' = IF which = "call" THEN e.self ELSE call
    /\ gmsg' = IF which = "gmsg" THEN e.self ELSE gmsg
    /\ last' = [op |-> op, which |-> which, local_pid |-> local_pid,
                value |-> value, exc |-> e.exc]
    /\ invocations' = invocations + 1
    /\ UNCHANGED <<msg, node_name, monitored>>

Held(which) == IF which = "call" THEN call ELSE gmsg

\* The application answers a request with a result.
Reply(which, local_pid, result) ==
    /\ IsRequest(Held(which))
    /\ Invoke("reply", which, local_pid, result,
              reply(Held(which), local_pid, result, all_nodes))

\* The application answers a request with an exit.
ReplyExit(which, local_pid, reason) ==
    /\ IsRequest(Held(which))
    /\ Invoke("reply_exit", which, local_pid, reason,
              reply_exit(Held(which), local_pid, reason, all_nodes))

Next ==
    \/ ParseGenCall
    \/ ParseGenMessage
    \/ \E which \in {"call", "gmsg"}, local_pid \in LocalPids, v \in ReplyValues :
           Reply(which, local_pid, v)
    \/ \E which \in {"call", "gmsg"}, local_pid \in LocalPids, v \in ReplyValues :
           ReplyExit(which, local_pid, v)

Spec == Init /\ [][Next]_vars

(***************************************************************************)
(* Shapes of raw messages, stated on the message itself.                   *)
(***************************************************************************)
IsTuple(v) == v.type = "tuple"
Arity(v) == Len(v.items)
\* (atom $gen_call, (S, T), X)
IsEnvelope(m) ==
    /\ IsTuple(m) /\ Arity(m) = 3
    /\ m.items[1] = Atom("$gen_call")
    /\ IsTuple(m.items[2]) /\ Arity(m.items[2]) = 2
SenderOf(m) == m.items[2].items[1]
TokenOf(m) == m.items[2].items[2]
BodyOf(m) == m.items[3]
\* the canonical string of a module or function name
IsName(v) == v.type \in {"atom", "bytes", "str"}
CanonicalString(v) ==
    IF v.type = "atom" THEN v.text_ ELSE IF v.type = "bytes" THEN v.data ELSE v.s
\* (atom $gen_call, (S, T), (c, M, F, A, G)) with M and F names
IsCallEnvelope(m) ==
    /\ IsEnvelope(m)
    /\ IsTuple(BodyOf(m)) /\ Arity(BodyOf(m)) = 5
    /\ IsName(BodyOf(m).items[2]) /\ IsName(BodyOf(m).items[3])

\* C1: for a call envelope (atom $gen_call, (S, T), (c, M, F, A, G)) with M
\* and F an atom, a bytes or a str, parse_gen_call on node N returns a
\* GenIncomingCall whose module and function are the canonical strings of M
\* and F, whose arguments are A, sender S, token T, group leader G and
\* origin node N.
C1_CallFields ==
    (IsCallEnvelope(msg) /\ call # NotRun) =>
        /\ call.kind = "GenIncomingCall"
        /\ call.mod_ = CanonicalString(BodyOf(msg).items[2])
        /\ call.fun_ = CanonicalString(BodyOf(msg).items[3])
        /\ call.args_ = BodyOf(msg).items[4]
        /\ call.sender_ = SenderOf(msg)
        /\ call.ref_ = TokenOf(msg)
        /\ call.group_leader_ = BodyOf(msg).items[5]
        /\ call.node_name_ = node_name

C1_Witness ==
    /\ IsCallEnvelope(msg)
    /\ BodyOf(msg).items[2].type = "bytes"
    /\ BodyOf(msg).items[3].type = "atom"
    /\ call.kind = "GenIncomingCall"
    /\ call.mod_ = "mod" /\ call.fun_ = "func"
    /\ call.args_ = List(<<Int(1), Int(2), Int(3)>>)

\* C2: for a message that is no tuple, and for a tuple of any length (the
\* empty tuple included) whose first element is not the atom $gen_call,
\* parse_gen_call and parse_gen_message both return an error string and
\* raise nothing.
C2_RejectedNotRaised ==
    (\/ ~IsTuple(msg)
     \/ IsTuple(msg) /\ (Arity(msg) = 0 \/ msg.items[1] # Atom("$gen_call")))
    => /\ call # NotRun => call.kind = "str"
       /\ gmsg # NotRun => gmsg.kind = "str"

\* C3: for a tuple that starts with the atom $gen_call and whose arity is not
\* 3, or whose second element is not a 2-tuple, parse_gen_call and
\* parse_gen_message both return an error string and raise nothing.
C3_MalformedRejected ==
    (/\ IsTuple(msg) /\ Arity(msg) > 0 /\ msg.items[1] = Atom("$gen_call")
     /\ \/ Arity(msg) # 3
        \/ ~IsTuple(msg.items[2])
        \/ Arity(msg.items[2]) # 2)
    => /\ call # NotRun => call.kind = "str"
       /\ gmsg # NotRun => gmsg.kind = "str"

\* A step that is one invocation of op; the request it is invoked on, as it
\* is before the step.
InvocationOf(op) == invocations' = invocations + 1 /\ last'.op = op
Invoked == IF last'.which = "call" THEN call ELSE gmsg

\* C4: with the request's origin node registered, reply(local, result) on a
\* request with sender S and token T enqueues exactly one ordinary message,
\* through the node registered under the origin node, from local to S and
\* holding (T, result), and enqueues no distribution command.
C4_ReplySendsOne ==
    [][(InvocationOf("reply") /\ Invoked.node_name_ \in all_nodes) =>
          /\ last'.exc = "none"
          /\ sent' = Append(sent, [via |-> Invoked.node_name_,
                                   sender |-> last'.local_pid,
                                   receiver |-> Invoked.sender_,
                                   message |-> Tuple(<<Invoked.ref_,
                                                       last'.value>>)])
          /\ dist' = dist]_vars

C4_Witness ==
    /\ last.op = "reply" /\ last.exc = "none"
    /\ node_name \in all_nodes
    /\ Len(sent) = 1
    /\ sent[1].receiver = pidB
    /\ sent[1].message = Tuple(<<ref2, Int(7)>>)

C6_RegistryMiss ==
    [][(/\ InvocationOf("reply") \/ InvocationOf("reply_exit")
        /\ Invoked.node_name_ \notin all_nodes) =>
          /\ last'.exc = "KeyError"
          /\ sent' = sent
          /\ dist' = dist
          /\ all_nodes' = all_nodes]_vars

C6_Witness ==
    /\ last.op = "reply_exit" /\ last.exc = "KeyError"
    /\ node_name \notin all_nodes
    /\ all_nodes # {}
    /\ invocations = 2
    /\ sent = <<>> /\ dist = <<>>

\* C7: for (atom $gen_call, (S, T), B) with B a tuple of arity other than 5,
\* parse_gen_call returns an error string that differs from the one it
\* returns for a tag mismatch and from the one it returns for a message that
\* is no tuple; with B of arity 5 the first element of B is not inspected:
\* whatever value stands there, the result is the same.
C7_BodyArity ==
    /\ (IsEnvelope(msg) /\ IsTuple(BodyOf(msg)) /\ Arity(BodyOf(msg)) # 5
        /\ call # NotRun) =>
          /\ call.kind = "str"
          /\ call # parse_gen_call(Tuple(<<Atom("$other_tag"), msg.items[2],
                                           BodyOf(msg)>>), node_name)
          /\ call # parse_gen_call(Int(42), node_name)
    /\ (IsEnvelope(msg) /\ IsTuple(BodyOf(msg)) /\ Arity(BodyOf(msg)) = 5
        /\ call # NotRun) =>
          \A c \in {Atom("call"), Atom("cast"), Int(0), Tuple(<<>>)} :
              call = parse_gen_call(
                         Tuple(<<msg.items[1], msg.items[2],
                                 Tuple(<<c>> \o Tail(BodyOf(msg).items))>>),
                         node_name)

C7_Witness ==
    /\ IsEnvelope(msg) /\ IsTuple(BodyOf(msg)) /\ Arity(BodyOf(msg)) = 4
    /\ call.kind = "str"

C9_BadNameRejected ==
    (/\ IsEnvelope(msg)
     /\ IsTuple(BodyOf(msg)) /\ Arity(BodyOf(msg)) = 5
     /\ ~IsName(BodyOf(msg).items[2]) \/ ~IsName(BodyOf(msg).items[3])
     /\ call # NotRun)
    => call.kind = "str"

\* C10: with the origin node registered, every reply or replyExit on the
\* requests of a message with sender S (a process identity) and token T
\* enqueues exactly one item, which carries T and targets S, so that after k
\* invocations k items are enqueued; no invocation changes a request.
Enqueued == Len(sent) + Len(dist)
C10_NoSingleUseGuard ==
    /\ []((node_name \in all_nodes /\ IsEnvelope(msg) /\ IsPid(SenderOf(msg))) =>
            /\ Enqueued = invocations
            /\ \A i \in 1..Len(sent) :
                   /\ sent[i].receiver = SenderOf(msg)
                   /\ sent[i].message.items[1] = TokenOf(msg)
            /\ \A i \in 1..Len(dist) :
                   /\ dist[i].receiver_node = SenderOf(msg).node_name_
                   /\ dist[i].message.items[3] = SenderOf(msg)
                   /\ dist[i].message.items[4] = TokenOf(msg))
    /\ [][(InvocationOf("reply") \/ InvocationOf("reply_exit")) =>
            /\ call' = call
            /\ gmsg' = gmsg
            /\ (Invoked.node_name_ \in all_nodes /\ IsPid(Invoked.sender_)) =>
                   Len(sent') + Len(dist') = Enqueued + 1]_vars

C10_Witness ==
    /\ invocations = 2
    /\ Len(sent) = 1 /\ Len(dist) = 1
    /\ sent[1].via = dist[1].via
    /\ last.op = "reply"
    /\ call.kind = "GenIncomingCall"

=============================================================================
